---- MODULE Spec2Model ----
(***************************************************************************)
(* Model of meow-inquirer's input collection (src/collect-input.ts): the   *)
(* collection loop, one pass of collectInput over the ordered stages, the  *)
(* resolution of a value from the CLI arguments or from the prompt, and    *)
(* the handling of the final validator's result.                           *)
(***************************************************************************)
EXTENDS Integers, Sequences, FiniteSets, TLC

\* Number of collectInput passes the model follows before it stops.
MaxPasses == 3
\* Longest list of [valueName, errorMessage] pairs the validator returns.
MaxErrorPairs == 2

(***************************************************************************)
(* JavaScript values: a tag and a content.                                 *)
(***************************************************************************)
Undefined == <<"undefined", "">>
Str(s) == <<"string", s>>
Num(n) == <<"number", n>>

(***************************************************************************)
(* The input specification the model runs: two message stages and four     *)
(* value stages. "dir" and "out" have no flag (positional) and share an    *)
(* order number.                                                           *)
(***************************************************************************)
TYPE_VALIDATE == "validate"
TYPE_MESSAGE == "message"

StageNames == {"intro", "name", "dir", "out", "port", "note"}

StageInfo(n) ==
  CASE n = "intro" ->
         [type |-> TYPE_MESSAGE, orderNumber |-> 0, flag |-> FALSE, schema |-> "-",
          condition |-> "-", message |-> "# intro"]
    [] n = "name" ->
         [type |-> TYPE_VALIDATE, orderNumber |-> 1, flag |-> TRUE, schema |-> "nonEmpty",
          condition |-> "-", message |-> "-"]
    [] n = "dir" ->
         [type |-> TYPE_VALIDATE, orderNumber |-> 2, flag |-> FALSE, schema |-> "nonEmpty",
          condition |-> "-", message |-> "-"]
    [] n = "out" ->
         [type |-> TYPE_VALIDATE, orderNumber |-> 2, flag |-> FALSE, schema |-> "nonEmpty",
          condition |-> "-", message |-> "-"]
    [] n = "port" ->
         [type |-> TYPE_VALIDATE, orderNumber |-> 3, flag |-> TRUE, schema |-> "NumberFromString",
          condition |-> "nameIsX", message |-> "-"]
    [] n = "note" ->
         [type |-> TYPE_MESSAGE, orderNumber |-> 4, flag |-> FALSE, schema |-> "-",
          condition |-> "-", message |-> "fn"]

ValueNames == {n \in StageNames : StageInfo(n).type = TYPE_VALIDATE}
FlagKeys == {n \in ValueNames : StageInfo(n).flag}

\* The two insertion orders of the specification object that the model runs.
InsertionOrders ==
  { <<"intro", "name", "dir", "out", "port", "note">>,
    <<"note", "port", "out", "dir", "name", "intro">> }

(***************************************************************************)
(* Schemas: S.is tests a typed value, S.decodeEither decodes a raw one.    *)
(* "nonEmpty" is S.string with S.nonEmpty; "NumberFromString" transforms   *)
(* a string of digits into a number.                                       *)
(***************************************************************************)
Digits == {"7", "8"}

SchemaIs(schema, v) ==
  CASE schema = "nonEmpty" -> v[1] = "string" /\ v[2] # ""
    [] schema = "NumberFromString" -> v[1] = "number"
    [] OTHER -> FALSE

\* The decoded value, or Undefined when decoding fails (E.left).
SchemaDecode(schema, raw) ==
  CASE schema = "nonEmpty" ->
         IF raw[1] = "string" /\ raw[2] # "" THEN raw ELSE Undefined
    [] schema = "NumberFromString" ->
         IF raw[1] = "string" /\ raw[2] \in Digits THEN Num(raw[2]) ELSE Undefined
    [] OTHER -> Undefined

(***************************************************************************)
(* Options (O.fromNullable) of the dynamic value input.                    *)
(***************************************************************************)
None == [some |-> FALSE, name |-> "", dir |-> FALSE]
Some(n, d) == [some |-> TRUE, name |-> n, dir |-> d]

\* The caller's getDynamicValueInput: a context once "name" is "x" or "y".
getDynamicValueInput(values) ==
  IF "name" \in DOMAIN values /\ values["name"] \in {Str("x"), Str("y")}
    THEN Some(values["name"][2], "dir" \in DOMAIN values)
    ELSE None

\* condition.isApplicable of stage "port".
isApplicable(condition, components) ==
  CASE condition = "nameIsX" -> components.name = "x"
    [] OTHER -> TRUE

\* condition.description of stage "port".
ConditionDescription(condition) ==
  CASE condition = "nameIsX" -> "Only when name is x"
    [] OTHER -> ""

\* The function-valued message of stage "note": string | undefined.
message(components) ==
  IF components.name = "y" THEN Undefined
  ELSE IF components.dir THEN Str("")
  ELSE Str("note for x")

(***************************************************************************)
(* State.                                                                  *)
(***************************************************************************)
VARIABLES
  spec,               \* the input specification: stage names in insertion order
  cliArgsParam,       \* the cliArgs parameter of the collect operation
  cliArgs,            \* the loop's cliArgs: { flags, input } or a HashSet of names
  input,              \* the loop's input: stage name -> value (Accumulated Input)
  fromCLI,            \* per stored field: whether its value came from the CLI
  validatedInput,     \* the loop's validatedInput
  validationResult,   \* the validator's last result and what the validator meant
  dynamicValueInput,  \* collectInput's dynamicValueInput
  cliArgsSet,         \* collectInput's cliArgsSet
  ordered,            \* getInputSpecOrdered(spec) of the running pass
  idx,                \* position of the for loop in ordered
  pc,                 \* where the collect operation is
  error,              \* what the collect operation rejected with
  log,                \* what happened since the running pass started
  passes,             \* collectInput calls so far
  validatorCalls,     \* inputValidator calls so far
  rejectedCLI,        \* CLI-sourced fields named in an error list since the last reset
  wasReset,           \* whether a string result has been handled
  noticed             \* fields the "not re-using" notice has been printed for

vars == <<spec, cliArgsParam, cliArgs, input, fromCLI, validatedInput, validationResult,
          dynamicValueInput, cliArgsSet, ordered, idx, pc, error, log, passes,
          validatorCalls, rejectedCLI, wasReset, noticed>>


(***************************************************************************)
(* Records and helpers.                                                    *)
(***************************************************************************)
NoFlags == [n \in FlagKeys |-> Undefined]
\* cliArgs as { flags, input }.
CLIArgsResult(flags, args) ==
  [isHashSet |-> FALSE, flags |-> flags, input |-> args, names |-> {}]
\* cliArgs as a HashSet of stage names.
HashSet(names) ==
  [isHashSet |-> TRUE, flags |-> NoFlags, input |-> <<>>, names |-> names]

EmptyInput == [n \in {} |-> Undefined]
EmptySources == [n \in {} |-> FALSE]
Put(f, k, v) == [n \in (DOMAIN f) \cup {k} |-> IF n = k THEN v ELSE f[n]]
Without(f, ks) == [n \in (DOMAIN f) \ ks |-> f[n]]

Ev(ev, name, arg, text) == [ev |-> ev, name |-> name, arg |-> arg, text |-> text]
\* print(msg, level): one line on the console.
print(name, kind, text) == Ev("print", name, kind, text)

\* What the validator returns: an object, an array of pairs, a string, undefined.
ResultObject(values) == [shape |-> "object", pairs |-> <<>>, of |-> values]
ResultArray(pairs) == [shape |-> "array", pairs |-> pairs, of |-> EmptyInput]
ResultString == [shape |-> "string", pairs |-> <<>>, of |-> EmptyInput]
ResultUndefined == [shape |-> "undefined", pairs |-> <<>>, of |-> EmptyInput]

RECURSIVE SeqsUpTo(_, _)
SeqsUpTo(S, k) ==
  IF k = 0 THEN {<<>>}
  ELSE LET shorter == SeqsUpTo(S, k - 1)
       IN shorter \cup {Append(q, x) : q \in {r \in shorter : Len(r) = k - 1}, x \in S}

\* The arrays of [valueName, errorMessage] pairs the validator may return.
ErrorLists == SeqsUpTo(ValueNames, MaxErrorPairs)

Range(q) == {q[i] : i \in 1..Len(q)}

(***************************************************************************)
(* getInputSpecOrdered: R.toEntries, then A.sort by orderNumber. The sort  *)
(* is Array.prototype.sort, which is stable.                               *)
(***************************************************************************)
RECURSIVE InsertSorted(_, _)
InsertSorted(n, sorted) ==
  IF sorted = <<>> THEN <<n>>
  ELSE IF StageInfo(n).orderNumber < StageInfo(Head(sorted)).orderNumber
    THEN <<n>> \o sorted
    ELSE <<Head(sorted)>> \o InsertSorted(n, Tail(sorted))

RECURSIVE SortStages(_, _)
SortStages(entries, sorted) ==
  IF entries = <<>> THEN sorted
  ELSE \* the one element of the set: the entries inserted so far are a
       \* value, computed once, when the rest is sorted into them
       CHOOSE result \in {SortStages(Tail(entries), inserted) :
                            inserted \in {InsertSorted(Head(entries), sorted)}} : TRUE

\* The entries left in insertion order.
getInputSpecUnordered(stages) == stages

getInputSpecOrdered(stages) == SortStages(stages, <<>>)

(***************************************************************************)
(* getValueFromCLIFlagsOrArgs: the value to use (Undefined for O.none) and *)
(* the lines printed on the way.                                           *)
(***************************************************************************)
\* The lookup with the flags left out: every stage reads the first argument.
RawCLIValueArgsOnly(valueName, flag, args) ==
  IF Len(args.input) > 0 THEN args.input[1] ELSE Undefined

\* The lookup taking the positional arguments one after the other.
RawCLIValueNextPositional(valueName, flag, args) ==
  LET k == IF valueName = "dir" THEN 1 ELSE 2
  IN IF flag THEN args.flags[valueName]
     ELSE IF Len(args.input) >= k THEN args.input[k] ELSE Undefined

RawCLIValue(valueName, flag, args) ==
  IF flag THEN args.flags[valueName]
  ELSE IF Len(args.input) > 0 THEN args.input[1] ELSE Undefined

\* A closed set stopping its members only: any other name is looked up in
\* the flags and arguments the operation was called with.
getValueFromCLIForNonMembers(valueName, schema, flag, args) ==
  IF args.isHashSet /\ valueName \in args.names
    THEN [value |-> Undefined, outcome |-> "closed",
          out |-> <<print(valueName, "notReusing", "")>>]
    ELSE LET open == IF args.isHashSet THEN cliArgsParam ELSE args
             value == RawCLIValue(valueName, flag, open)
         IN IF value = Undefined
              THEN [value |-> Undefined, outcome |-> "absent", out |-> <<>>]
              ELSE IF SchemaIs(schema, value)
                THEN [value |-> value, outcome |-> "valid",
                      out |-> <<print(valueName, "usingCLI", value[2])>>]
                ELSE [value |-> Undefined, outcome |-> "invalid",
                      out |-> <<print(valueName, "cliInvalid",
                                      IF flag THEN "parameter" ELSE "argument")>>]

getValueFromCLIFlagsOrArgs(valueName, schema, flag, args) ==
  IF args.isHashSet
    THEN [value |-> Undefined,
          outcome |-> "closed",
          out |-> IF valueName \in args.names
                    THEN <<print(valueName, "notReusing", "")>> ELSE <<>>]
    ELSE LET value == RawCLIValue(valueName, flag, args)
         IN IF value = Undefined
              THEN [value |-> Undefined, outcome |-> "absent", out |-> <<>>]
              ELSE IF SchemaIs(schema, value)
                THEN [value |-> value, outcome |-> "valid",
                      out |-> <<print(valueName, "usingCLI", value[2])>>]
                ELSE [value |-> Undefined, outcome |-> "invalid",
                      out |-> <<print(valueName, "cliInvalid",
                                      IF flag THEN "parameter" ELSE "argument")>>]

(***************************************************************************)
(* promptValueFromUser: the prompt module asks until validate (the schema  *)
(* decoder) accepts what was typed, and answers with what was typed.       *)
(***************************************************************************)
UserInputs(valueName) ==
  CASE valueName = "name" -> {Str(""), Str("x"), Str("y"), Str("z")}
    [] valueName = "dir" -> {Str(""), Str("d")}
    [] valueName = "out" -> {Str("e")}
    [] valueName = "port" -> {Str("x"), Str("7")}
    [] OTHER -> {}

validate(schema, raw) == SchemaDecode(schema, raw) # Undefined

\* The prompt's answer replaced by what the decoder makes of it.
promptValueFromUserDecoded(schema, raw) == SchemaDecode(schema, raw)

promptValueFromUser(schema, raw) == raw

(***************************************************************************)
(* Initial state: the collect operation has been called with cliArgsParam. *)
(***************************************************************************)
\* The cliArgs parameters the model runs: everything given and valid, a flag
\* and an argument that their schemas refuse, nothing given, and a valid
\* flag for the conditional stage alone with one argument.
CLIArgsParams ==
  { CLIArgsResult([name |-> Str("x"), port |-> Num("7")], <<Str("d"), Str("e")>>),
    CLIArgsResult([name |-> Undefined, port |-> Str("7")], <<Str("")>>),
    CLIArgsResult([name |-> Undefined, port |-> Undefined], <<>>),
    CLIArgsResult([name |-> Undefined, port |-> Num("7")], <<Str("d")>>) }

\* The collect operation has been called with one of params, on the
\* specification written in one of orders.
InitWith(orders, params) ==
  /\ spec \in orders
  /\ cliArgsParam \in params
  /\ cliArgs = cliArgsParam
  /\ input = EmptyInput
  /\ fromCLI = EmptySources
  /\ validatedInput = ResultUndefined
  /\ validationResult = [intent |-> "-", result |-> ResultUndefined]
  /\ dynamicValueInput = None
  /\ cliArgsSet = {}
  /\ ordered = <<>>
  /\ idx = 0
  /\ pc = "collect"
  /\ error = ""
  /\ log = <<>>
  /\ passes = 0
  /\ validatorCalls = 0
  /\ rejectedCLI = {}
  /\ wasReset = FALSE
  /\ noticed = {}

Init == InitWith({<<"intro", "name", "dir", "out", "port", "note">>}, CLIArgsParams)


\* The context of the pass before kept when there was one.
ContextKept(previous, values) ==
  IF previous.some THEN previous ELSE getDynamicValueInput(values)

\* Lines 206-207: dynamicValueInput is a variable of the collectInput call,
\* set from the provider's answer for the values the call is given.
ContextAtPassStart(previous, values) == getDynamicValueInput(values)

(***************************************************************************)
(* collectInput, lines 206-208: a pass starts.                             *)
(***************************************************************************)
StartPass(count) ==
  /\ pc = "collect"
  /\ dynamicValueInput' = ContextAtPassStart(dynamicValueInput, input)
  /\ cliArgsSet' = {}
  /\ ordered' = getInputSpecOrdered(spec)
  /\ idx' = 1
  /\ pc' = "stage"
  /\ passes' = count
  /\ validationResult' = [intent |-> "-", result |-> ResultUndefined]
  /\ log' = <<Ev("provider", "", IF dynamicValueInput'.some THEN "some" ELSE "none", "")>>
  /\ UNCHANGED <<spec, cliArgsParam, cliArgs, input, fromCLI, validatedInput, error,
                 validatorCalls, rejectedCLI, wasReset, noticed>>

\* The provider asked again after every stored value.
ContextRecomputed(current, values) == getDynamicValueInput(values)

\* The provider not asked after a stored value.
ContextNotRecomputed(current, values) == current

\* Lines 225-227: if (O.isNone(dynamicValueInput)) the provider is asked
\* with the values as they are now.
ContextAfterStore(current, values) ==
  IF current.some THEN current ELSE getDynamicValueInput(values)

\* Line 51: collectInput is called, as long as the model follows the passes.
CollectInput == passes < MaxPasses /\ StartPass(passes + 1)

\* Lines 223-235: the value is stored, the dynamic value input is asked for
\* if there is none yet, and a CLI-sourced name is added to cliArgsSet.
StoreValue(stageName, value, isCLI, before) ==
  /\ input' = Put(input, stageName, value)
  /\ fromCLI' = Put(fromCLI, stageName, isCLI)
  /\ dynamicValueInput' = ContextAfterStore(dynamicValueInput, input')
  /\ cliArgsSet' = IF isCLI THEN cliArgsSet \cup {stageName} ELSE cliArgsSet
  /\ log' = log \o before
              \o <<Ev("store", stageName, IF isCLI THEN "cli" ELSE "prompt", "")>>
              \o (IF dynamicValueInput.some THEN <<>>
                  ELSE <<Ev("provider", "",
                            IF dynamicValueInput'.some THEN "some" ELSE "none", "")>>)
  /\ idx' = idx + 1
  /\ pc' = "stage"

\* The membership test left out.
InValuesNever(stageName, values) == FALSE

\* Line 210: stageName in values.
InValues(stageName, values) == stageName \in DOMAIN values

\* Line 210: a stage whose name is in values is passed over.
StagePresent ==
  /\ pc = "stage"
  /\ idx <= Len(ordered)
  /\ InValues(ordered[idx], input)
  /\ idx' = idx + 1
  /\ log' = Append(log, Ev("skip", ordered[idx], "", ""))
  /\ UNCHANGED <<spec, cliArgsParam, cliArgs, input, fromCLI, validatedInput,
                 validationResult, dynamicValueInput, cliArgsSet, ordered, pc, error,
                 passes, validatorCalls, rejectedCLI, wasReset, noticed>>

\* The call never throwing.
GetOrThrowNever(components) == FALSE

\* Lines 313 and 347: O.getOrThrow(components) throws on O.none.
GetOrThrowThrows(components) == ~components.some

\* Only a string that is not empty being printed.
IsStringNonEmpty(str) == str[1] = "string" /\ str[2] # ""

\* Line 317: Match.string.
IsString(str) == str[1] = "string"

\* The printed string handed back as the stage's value.
MessageResultString(str) == str

\* Lines 319-320: handleStageMessage answers O.none, whatever was printed.
MessageResult(str) == Undefined

\* handleStageMessage: the message, or the message function's result, is
\* printed when it is a string. Lines 222-224: what a stage answers, when it
\* is not O.none, is stored under the stage's name.
HandleStageMessage ==
  /\ pc = "stage"
  /\ idx <= Len(ordered)
  /\ ~InValues(ordered[idx], input)
  /\ StageInfo(ordered[idx]).type = TYPE_MESSAGE
  /\ LET stageName == ordered[idx]
         literal == StageInfo(stageName).message
         visit == Ev("visit", stageName, TYPE_MESSAGE, "")
     IN IF literal = "fn" /\ GetOrThrowThrows(dynamicValueInput)
          THEN /\ pc' = "failed"
               /\ error' = "getOrThrow"
               /\ log' = log \o <<visit>>
               /\ idx' = idx
               /\ UNCHANGED <<input, fromCLI>>
          ELSE LET str == IF literal = "fn" THEN message(dynamicValueInput)
                          ELSE Str(literal)
               IN /\ log' = log \o <<visit>>
                               \o (IF IsString(str)
                                     THEN <<print(stageName, "message", str[2])>>
                                     ELSE <<>>)
                  /\ idx' = idx + 1
                  /\ input' = IF MessageResult(str) = Undefined THEN input
                              ELSE Put(input, stageName, MessageResult(str))
                  /\ fromCLI' = IF MessageResult(str) = Undefined THEN fromCLI
                                ELSE Put(fromCLI, stageName, FALSE)
                  /\ UNCHANGED <<pc, error>>
  /\ UNCHANGED <<spec, cliArgsParam, cliArgs, validatedInput,
                 validationResult, dynamicValueInput, cliArgsSet, ordered,
                 passes, validatorCalls, rejectedCLI, wasReset, noticed>>

\* The condition left out.
ApplicableAlways(stage, components) == TRUE

\* Lines 341-354: the stage is handled when it has no condition or when its
\* condition's isApplicable returns true.
Applicable(stage, components) ==
  IF stage.condition = "-" THEN TRUE ELSE isApplicable(stage.condition, components) = TRUE

\* The condition's description printed for a stage that is not applicable.
InapplicableNoticeDescription(stageName, condition, result) ==
  <<print(stageName, "condition", ConditionDescription(condition))>>

\* Lines 369-376: what isApplicable returned, when it is not true, is
\* printed if it is a string.
InapplicableNotice(stageName, condition, result) ==
  IF result \in BOOLEAN THEN <<>> ELSE <<print(stageName, "condition", result)>>

\* handleStageStateMutation up to the prompt: the condition, then the value
\* from the CLI, stored at once; without one the prompt module is called.
HandleStageStateMutation ==
  /\ pc = "stage"
  /\ idx <= Len(ordered)
  /\ ~InValues(ordered[idx], input)
  /\ StageInfo(ordered[idx]).type = TYPE_VALIDATE
  /\ LET stageName == ordered[idx]
         stage == StageInfo(stageName)
         visit == Ev("visit", stageName, TYPE_VALIDATE, "")
     IN IF stage.condition # "-" /\ GetOrThrowThrows(dynamicValueInput)
          THEN /\ pc' = "failed"
               /\ error' = "getOrThrow"
               /\ log' = log \o <<visit, Ev("condition", stageName, "throw", "")>>
               /\ UNCHANGED <<input, fromCLI, dynamicValueInput, cliArgsSet, idx, noticed>>
          ELSE LET applicable == Applicable(stage, dynamicValueInput)
                   cond == IF stage.condition = "-" THEN <<>>
                           ELSE <<Ev("condition", stageName,
                                     IF isApplicable(stage.condition, dynamicValueInput)
                                       THEN "true" ELSE "false", "")>>
                   cli == getValueFromCLIFlagsOrArgs(stageName, stage.schema,
                                                     stage.flag, cliArgs)
                   lookup == <<Ev("cli", stageName, cli.outcome, "")>> \o cli.out
               IN IF ~applicable
                    THEN /\ idx' = idx + 1
                         /\ log' = log \o <<visit>> \o cond
                                       \o InapplicableNotice(
                                            stageName, stage.condition,
                                            isApplicable(stage.condition, dynamicValueInput))
                         /\ UNCHANGED <<input, fromCLI, dynamicValueInput, cliArgsSet,
                                        pc, error, noticed>>
                    ELSE IF cli.value = Undefined
                      THEN /\ pc' = "prompt"
                           /\ log' = log \o <<visit>> \o cond \o lookup
                                         \o <<Ev("prompt", stageName, "", "")>>
                           /\ noticed' = IF cli.out = <<>> THEN noticed
                                         ELSE noticed \cup {stageName}
                           /\ UNCHANGED <<input, fromCLI, dynamicValueInput, cliArgsSet,
                                          idx, error>>
                      ELSE /\ StoreValue(stageName, cli.value, TRUE,
                                         <<visit>> \o cond \o lookup)
                           /\ UNCHANGED <<error, noticed>>
  /\ UNCHANGED <<spec, cliArgsParam, cliArgs, validatedInput, validationResult, ordered,
                 passes, validatorCalls, rejectedCLI, wasReset>>

\* Lines 361-364: the prompt module answers; the answer is stored.
PromptAnswered ==
  /\ pc = "prompt"
  /\ \E raw \in UserInputs(ordered[idx]) :
       /\ validate(StageInfo(ordered[idx]).schema, raw)
       /\ StoreValue(ordered[idx],
                     promptValueFromUser(StageInfo(ordered[idx]).schema, raw),
                     FALSE, <<Ev("answer", ordered[idx], raw[1], raw[2])>>)
  /\ UNCHANGED <<spec, cliArgsParam, cliArgs, validatedInput, validationResult, ordered,
                 error, passes, validatorCalls, rejectedCLI, wasReset, noticed>>

\* The rejection swallowed: the prompt module is asked again.
PromptRejectionRetried == "prompt"

\* Lines 361-364 and 212-220: nothing catches what the awaited promptModule
\* rejects with.
PromptRejection == "failed"

\* The prompt module rejects: the error leaves the collect operation.
PromptFailed ==
  /\ pc = "prompt"
  /\ pc' = PromptRejection
  /\ error' = "prompt"
  /\ UNCHANGED <<spec, cliArgsParam, cliArgs, input, fromCLI, validatedInput,
                 validationResult, dynamicValueInput, cliArgsSet, ordered, idx, log,
                 passes, validatorCalls, rejectedCLI, wasReset, noticed>>

\* The for loop left after its first round.
PassOverEarly(i, stages) == i > 1

\* Line 209: the for loop has gone through every entry.
PassOver(i, stages) == i > Len(stages)

\* Lines 241 and 60: the pass is over, inputValidator(input) is called.
InputValidatorCalled(count) ==
  /\ pc = "stage"
  /\ PassOver(idx, ordered)
  /\ pc' = "validate"
  /\ validatorCalls' = count
  /\ log' = Append(log, Ev("validate", "", "", ""))
  /\ UNCHANGED <<spec, cliArgsParam, cliArgs, input, fromCLI, validatedInput,
                 validationResult, dynamicValueInput, cliArgsSet, ordered, idx, error,
                 passes, rejectedCLI, wasReset, noticed>>

CallValidator == InputValidatorCalled(validatorCalls + 1)

\* What the validator may answer, with what it means by it. A validated
\* input may be any value: the object, undefined, a string, an array.
ValidatorAnswers ==
  {[intent |-> "accept", result |-> r] :
     r \in {ResultObject(input), ResultUndefined, ResultString}
           \cup {ResultArray(l) : l \in {q \in ErrorLists : Len(q) <= 1}}}
  \cup {[intent |-> "fieldErrors", result |-> ResultArray(l)] : l \in ErrorLists}
  \cup {[intent |-> "internalError", result |-> ResultString]}

\* The fields deleted without a line printed.
RECURSIVE ErrorEventsSilent(_)
ErrorEventsSilent(pairs) ==
  IF pairs = <<>> THEN <<>>
  ELSE <<Ev("delete", Head(pairs), "", "")>> \o ErrorEventsSilent(Tail(pairs))

RECURSIVE ErrorEvents(_)
ErrorEvents(pairs) ==
  IF pairs = <<>> THEN <<>>
  ELSE <<print(Head(pairs), "fieldError", ""), Ev("delete", Head(pairs), "", "")>>
         \o ErrorEvents(Tail(pairs))

\* The deletion stopping after the first pair.
DeleteFieldsFirst(values, pairs) ==
  IF pairs = <<>> THEN values ELSE Without(values, {pairs[1]})

\* Lines 70-72: delete input[valueName], for each pair.
DeleteFields(values, pairs) == Without(values, Range(pairs))

\* The replacement left out.
ClosedCLIArgsKept(args, names) == args

\* The replacement made whether cliArgs is open or not.
ClosedCLIArgsReplaced(args, names) == HashSet(names)

\* Lines 74-76: an open cliArgs is replaced by the pass's cliArgsSet.
ClosedCLIArgs(args, names) == IF ~args.isHashSet THEN HashSet(names) ELSE args

\* The reset going back to the cliArgs parameter.
ClearedCLIArgsOriginal == cliArgsParam

\* Line 85: cliArgs = { flags: {}, input: [] }.
ClearedCLIArgs == CLIArgsResult(NoFlags, <<>>)

\* The test for a string left out.
ClassifyArraysOnly(result) ==
  CASE result.shape = "array" -> "array"
    [] OTHER -> "validated"

\* Lines 61, 77 and 87: Array.isArray, typeof "string", anything else.
Classify(result) ==
  CASE result.shape = "array" -> "array"
    [] result.shape = "string" -> "string"
    [] OTHER -> "validated"

\* The loop going back to the validator call instead of the pass.
LoopTargetValidator(validated) ==
  IF validated = ResultUndefined THEN "validate" ELSE "done"

\* Lines 47 and 90: do { collectInput ... } while (validatedInput === undefined).
LoopTarget(validated) ==
  IF validated = ResultUndefined THEN "collect" ELSE "done"

\* Lines 61-76: an array. Each pair is printed and its field deleted; an
\* open cliArgs is replaced by the pass's cliArgsSet.
HandleErrorArray(answer) ==
  LET pairs == answer.result.pairs
  IN /\ input' = DeleteFields(input, pairs)
     /\ fromCLI' = [n \in DOMAIN input' |-> fromCLI[n]]
     /\ cliArgs' = ClosedCLIArgs(cliArgs, cliArgsSet)
     /\ rejectedCLI' = rejectedCLI \cup
                         {n \in Range(pairs) : n \in DOMAIN input /\ fromCLI[n]}
     /\ log' = log \o <<Ev("result", "", "array", "")>> \o ErrorEvents(pairs)
     /\ pc' = LoopTarget(validatedInput)
     /\ UNCHANGED <<validatedInput, wasReset>>

\* Lines 77-86: a string. The CLI arguments and the input are emptied.
HandleErrorString(answer) ==
  /\ cliArgs' = ClearedCLIArgs
  /\ input' = EmptyInput
  /\ fromCLI' = EmptySources
  /\ rejectedCLI' = {}
  /\ wasReset' = TRUE
  /\ log' = log \o <<Ev("result", "", "string", ""), print("", "internalError", ""),
                     Ev("reset", "", "", "")>>
  /\ pc' = LoopTarget(validatedInput)
  /\ UNCHANGED validatedInput

\* Lines 87-90: anything else becomes validatedInput; undefined loops.
HandleValidated(answer) ==
  /\ validatedInput' = answer.result
  /\ pc' = LoopTarget(validatedInput')
  /\ log' = Append(log, Ev("result", "", answer.result.shape, ""))
  /\ UNCHANGED <<cliArgs, input, fromCLI, rejectedCLI, wasReset>>

ValidatorAnswered(answers) ==
  /\ pc = "validate"
  /\ \E answer \in answers :
       /\ validationResult' = answer
       /\ CASE Classify(answer.result) = "array" -> HandleErrorArray(answer)
            [] Classify(answer.result) = "string" -> HandleErrorString(answer)
            [] OTHER -> HandleValidated(answer)
  /\ UNCHANGED <<spec, cliArgsParam, dynamicValueInput, cliArgsSet, ordered, idx, error,
                 passes, validatorCalls, noticed>>

ValidatorReturns == ValidatorAnswered(ValidatorAnswers)

\* The validator throws or rejects: the error leaves the collect operation.
ValidatorFailed ==
  /\ pc = "validate"
  /\ pc' = "failed"
  /\ error' = "validator"
  /\ UNCHANGED <<spec, cliArgsParam, cliArgs, input, fromCLI, validatedInput,
                 validationResult, dynamicValueInput, cliArgsSet, ordered, idx, log,
                 passes, validatorCalls, rejectedCLI, wasReset, noticed>>

Next ==
  \/ CollectInput
  \/ StagePresent
  \/ HandleStageMessage
  \/ HandleStageStateMutation
  \/ PromptAnswered
  \/ PromptFailed
  \/ CallValidator
  \/ ValidatorReturns
  \/ ValidatorFailed

Spec == Init /\ [][Next]_vars

(***************************************************************************)
(* The loop followed without an end: the counters stop at MaxPasses, every *)
(* call of the prompt module and of the validator returns, and from pass   *)
(* MaxPasses on the validator answers with a validated input only. The     *)
(* program is sequential and nothing but an awaited call holds it up, so a *)
(* step that can be taken is taken.                                        *)
(***************************************************************************)
CollectInputLive == StartPass(IF passes < MaxPasses THEN passes + 1 ELSE passes)

CallValidatorLive ==
  InputValidatorCalled(IF validatorCalls < MaxPasses THEN validatorCalls + 1
                       ELSE validatorCalls)

ValidatorReturnsLive ==
  ValidatorAnswered(IF passes < MaxPasses THEN ValidatorAnswers
                    ELSE {a \in ValidatorAnswers : a.intent = "accept"})

NextLive ==
  \/ CollectInputLive
  \/ StagePresent
  \/ HandleStageMessage
  \/ HandleStageStateMutation
  \/ PromptAnswered
  \/ CallValidatorLive
  \/ ValidatorReturnsLive

SpecLive == Init /\ [][NextLive]_vars /\ WF_vars(NextLive)

(***************************************************************************)
(* The loop followed without an end with a validator that is a function of *)
(* the input it is given: it names "name" when that is "y", returns the    *)
(* input as validated when "port" is the number 7, and returns an empty    *)
(* array of errors for anything else.                                      *)
(***************************************************************************)
inputValidatorByInput(values) ==
  IF "name" \in DOMAIN values /\ values["name"] = Str("y")
    THEN [intent |-> "fieldErrors", result |-> ResultArray(<<"name">>)]
  ELSE IF "port" \in DOMAIN values /\ values["port"] = Num("7")
    THEN [intent |-> "accept", result |-> ResultObject(values)]
  ELSE [intent |-> "fieldErrors", result |-> ResultArray(<<>>)]

ValidatorReturnsByInput == ValidatorAnswered({inputValidatorByInput(input)})

NextRepeat ==
  \/ CollectInputLive
  \/ StagePresent
  \/ HandleStageMessage
  \/ HandleStageStateMutation
  \/ PromptAnswered
  \/ CallValidatorLive
  \/ ValidatorReturnsByInput

SpecRepeat == Init /\ [][NextRepeat]_vars /\ WF_vars(NextRepeat)

\* The same program on the specification written in either insertion order.
InitOrder ==
  InitWith(InsertionOrders,
           {CLIArgsResult([name |-> Str("x"), port |-> Num("7")], <<Str("d"), Str("e")>>)})

SpecOrder == InitOrder /\ [][Next]_vars


(***************************************************************************)
(* Reading the log of the running pass.                                    *)
(***************************************************************************)
HasEv(ev, name) == \E i \in 1..Len(log) : log[i].ev = ev /\ log[i].name = name
HasEvArg(ev, name, arg) ==
  \E i \in 1..Len(log) : log[i].ev = ev /\ log[i].name = name /\ log[i].arg = arg
CountEv(ev, name) ==
  Cardinality({i \in 1..Len(log) : log[i].ev = ev /\ log[i].name = name})

\* The states in which cliArgs is still the one the running pass was given.
InPass == pc \in {"stage", "prompt", "validate", "failed"}

\* The stage was handled in the running pass and was applicable.
Resolved(name) ==
  /\ HasEv("visit", name)
  /\ ~HasEvArg("condition", name, "false")
  /\ ~HasEvArg("condition", name, "throw")

\* The value the cliArgs parameter holds for a stage, and whether its schema
\* accepts it.
ParamValue(name) == RawCLIValue(name, StageInfo(name).flag, cliArgsParam)
ParamValueValid(name) ==
  ParamValue(name) # Undefined /\ SchemaIs(StageInfo(name).schema, ParamValue(name))

(***************************************************************************)
(* C1. CLI precedence: a flagged value stage that is applicable and is     *)
(* resolved while cliArgs is still { flags, input } with a flag value its  *)
(* schema accepts gets exactly that value, and the prompt module is not    *)
(* called for it in that pass.                                             *)
(***************************************************************************)
C1_CLIPrecedence ==
  InPass =>
    \A f \in FlagKeys :
      ( /\ Resolved(f)
        /\ ~cliArgs.isHashSet
        /\ cliArgs.flags[f] # Undefined
        /\ SchemaIs(StageInfo(f).schema, cliArgs.flags[f]) )
      => /\ f \in DOMAIN input
         /\ input[f] = cliArgs.flags[f]
         /\ fromCLI[f]
         /\ ~HasEv("prompt", f)

C1_Witness ==
  /\ pc = "validate"
  /\ ~cliArgs.isHashSet
  /\ Resolved("port")
  /\ "port" \in DOMAIN input
  /\ input["port"] = Num("7")
  /\ cliArgs.flags["port"] = Num("7")

(***************************************************************************)
(* C2. No CLI reuse after rejection: once a field whose value came from    *)
(* the CLI has been named in an array of errors, and until a string result *)
(* resets the loop, a later pass that resolves the field calls the prompt  *)
(* module for it and does not take the value from the CLI, and the field   *)
(* never again holds a CLI value, though the parameter still has one.      *)
(***************************************************************************)
C2_NoCLIReuse ==
  \A f \in rejectedCLI :
    /\ f \in DOMAIN input => ~fromCLI[f]
    /\ (InPass /\ Resolved(f))
         => /\ HasEv("prompt", f)
            /\ ~HasEvArg("cli", f, "valid")
            /\ ~HasEvArg("store", f, "cli")

C2_Witness ==
  /\ pc = "validate"
  /\ "name" \in rejectedCLI
  /\ ParamValueValid("name")
  /\ "name" \in DOMAIN input
  /\ ~fromCLI["name"]
  /\ HasEv("prompt", "name")

(***************************************************************************)
(* C3. Full reset. As claimed: a string result empties the input and puts  *)
(* cliArgs back to the open snapshot the operation was called with, so the *)
(* original CLI values are read again.                                     *)
(***************************************************************************)
ResetStep == pc = "validate" /\ pc' = "collect" /\ validationResult'.result.shape = "string"

C3_ResetRestoresCLI ==
  [][ResetStep => (input' = EmptyInput /\ cliArgs' = cliArgsParam)]_vars

(***************************************************************************)
(* C3, amended. A string result empties the input, fields the error has    *)
(* nothing to do with included, and makes cliArgs an open snapshot with no *)
(* flags and no arguments: from then on no value is taken from the CLI and *)
(* every value stage that is resolved is prompted for.                     *)
(***************************************************************************)
C3_ResetClearsAll ==
  /\ [][ResetStep => ( /\ input' = EmptyInput
                       /\ ~cliArgs'.isHashSet
                       /\ \A f \in FlagKeys : cliArgs'.flags[f] = Undefined
                       /\ cliArgs'.input = <<>> )]_vars
  /\ [](wasReset =>
          /\ \A f \in DOMAIN input : ~fromCLI[f]
          /\ InPass => \A f \in ValueNames : Resolved(f) => HasEv("prompt", f))

C3_Witness ==
  /\ wasReset
  /\ pc = "validate"
  /\ passes = 2
  /\ ParamValueValid("name")
  /\ ParamValueValid("dir")
  /\ DOMAIN input = {"name", "dir", "out", "port"}
  /\ \A f \in DOMAIN input : ~fromCLI[f]

(***************************************************************************)
(* C4. Fallback: a value stage that is applicable, not yet in the input,   *)
(* and has no CLI value or one its schema refuses, has the prompt module   *)
(* called exactly once in the pass, and what the prompt module answers is  *)
(* what is stored.                                                         *)
(***************************************************************************)
C4_Fallback ==
  InPass =>
    \A f \in ValueNames :
      (Resolved(f) /\ ~ParamValueValid(f))
      => /\ CountEv("prompt", f) = 1
         /\ f \in DOMAIN input =>
              /\ ~fromCLI[f]
              /\ \E i \in 1..Len(log) :
                   /\ log[i].ev = "answer"
                   /\ log[i].name = f
                   /\ input[f] = <<log[i].arg, log[i].text>>

C4_Witness ==
  /\ pc = "validate"
  /\ ~cliArgs.isHashSet
  /\ cliArgsParam.flags["port"] = Str("7")
  /\ cliArgsParam.input = <<Str("")>>
  /\ HasEvArg("cli", "port", "invalid")
  /\ HasEvArg("cli", "name", "absent")
  /\ DOMAIN input = {"name", "dir", "out", "port"}
  /\ CountEv("prompt", "port") = 1

(***************************************************************************)
(* C5. Conditional skip: a value stage whose condition is false in a pass  *)
(* is not added to the input in that pass, and neither the CLI lookup nor  *)
(* the prompt module is reached for it, whatever the CLI holds for it.     *)
(***************************************************************************)
C5_ConditionalSkip ==
  \A f \in ValueNames :
    HasEvArg("condition", f, "false")
    => /\ f \notin DOMAIN input
       /\ ~HasEv("cli", f)
       /\ ~HasEv("prompt", f)
       /\ ~HasEv("store", f)

C5_Witness ==
  /\ pc = "validate"
  /\ HasEvArg("condition", "port", "false")
  /\ ~cliArgs.isHashSet
  /\ cliArgs.flags["port"] = Num("7")
  /\ "port" \notin DOMAIN input


(***************************************************************************)
(* C6. Idempotent skip: a field that is in the input is not resolved again *)
(* (no condition, no CLI lookup, no prompt, no store for it) and keeps its *)
(* value, in the running pass and in later ones, until an array of errors  *)
(* that names it, or a string result, deletes it.                          *)
(***************************************************************************)
ResolutionEvents == {"visit", "condition", "cli", "prompt", "answer", "store"}

C6_IdempotentSkip ==
  [][\A f \in DOMAIN input :
       /\ \/ /\ f \in DOMAIN input'
             /\ input'[f] = input[f]
             /\ fromCLI'[f] = fromCLI[f]
          \/ /\ pc = "validate"
             /\ validationResult'.result.shape = "array"
             /\ f \in Range(validationResult'.result.pairs)
          \/ /\ pc = "validate"
             /\ validationResult'.result.shape = "string"
       /\ \A i \in 1..Len(log') :
            ((pc = "collect" \/ i > Len(log)) /\ log'[i].name = f)
            => /\ log'[i].ev \notin ResolutionEvents
               /\ log'[i].ev = "print" => log'[i].arg = "fieldError"]_vars

C6_Witness ==
  /\ pc = "validate"
  /\ passes = 3
  /\ HasEv("skip", "name")
  /\ HasEv("skip", "dir")
  /\ HasEv("store", "out")
  /\ fromCLI["name"]

(***************************************************************************)
(* C7. Per-field errors: when the validator returns an array of pairs, the *)
(* fields it names, and no others, are deleted from the input; one error   *)
(* line is printed per pair; the other fields keep their values; and the   *)
(* loop goes on to another pass, which resolves only what is missing.      *)
(***************************************************************************)
ArrayStep == pc = "validate" /\ pc' # "failed" /\ validationResult'.result.shape = "array"

C7_FieldErrors ==
  [][ArrayStep =>
       LET pairs == validationResult'.result.pairs
       IN /\ DOMAIN input' = DOMAIN input \ Range(pairs)
          /\ \A f \in DOMAIN input' : input'[f] = input[f]
          /\ Cardinality({i \in (Len(log) + 1)..Len(log') :
                            log'[i].ev = "print" /\ log'[i].arg = "fieldError"})
               = Len(pairs)
          /\ \A k \in 1..Len(pairs) :
               \E i \in (Len(log) + 1)..Len(log') :
                 log'[i].ev = "print" /\ log'[i].name = pairs[k]
          /\ pc' = "collect"
          /\ validatedInput' = validatedInput]_vars

C7_Witness ==
  /\ pc = "collect"
  /\ validationResult.result.shape = "array"
  /\ validationResult.result.pairs = <<"out", "name">>
  /\ HasEv("store", "name")
  /\ HasEv("store", "out")
  /\ DOMAIN input = {"dir", "port"}

(***************************************************************************)
(* C8. The collect operation returns only what the validator returned as   *)
(* its validated input for the input of the pass just run; it does not     *)
(* return on an array of errors or on an error string; and once it has     *)
(* returned nothing more happens.                                          *)
(***************************************************************************)
C8_ReturnsValidated ==
  /\ [](pc = "done" =>
          /\ validationResult.intent = "accept"
          /\ validatedInput = validationResult.result
          /\ validatedInput.shape = "object"
          /\ validatedInput.of = input)
  /\ [][pc # "done"]_vars

C8_Witness ==
  /\ pc = "done"
  /\ passes = 2
  /\ validatedInput = ResultObject(input)
  /\ DOMAIN input = {"name", "dir", "out"}

(***************************************************************************)
(* C9. Termination: when the validator's first answer is a validated       *)
(* input, whatever value that is, the operation has run one pass and one   *)
(* validator call and returns that value.                                  *)
(***************************************************************************)
C9_OnePass ==
  (validatorCalls = 1 /\ validationResult.intent = "accept")
  => /\ pc = "done"
     /\ passes = 1
     /\ validatedInput = validationResult.result

(***************************************************************************)
(* C10. Ordering. As claimed: the stages are visited in ascending order    *)
(* number, and the visiting order is the same for every insertion order of *)
(* the same entries, stages that share an order number included.           *)
(***************************************************************************)
RECURSIVE Orders(_)
Orders(names) ==
  IF names = {} THEN {<<>>}
  ELSE UNION {{<<n>> \o o : o \in Orders(names \ {n})} : n \in names}

AllInsertionOrders == Orders(StageNames)

Position(q, x) == CHOOSE i \in 1..Len(q) : q[i] = x

\* The stages the running pass has come to, in the order it came to them.
Visited ==
  LET at == SelectSeq(log, LAMBDA e : e.ev \in {"visit", "skip"})
  IN [i \in 1..Len(at) |-> at[i].name]

Ascending(q) ==
  \A i, j \in 1..Len(q) :
    i < j => StageInfo(q[i]).orderNumber <= StageInfo(q[j]).orderNumber

C10_AnyInsertionOrder ==
  /\ Ascending(Visited)
  /\ (pc = "stage" /\ idx = 1) =>
       \A o \in InsertionOrders : getInputSpecOrdered(o) = ordered

(***************************************************************************)
(* C10, amended. The stages are visited in ascending order number, stages  *)
(* that share an order number in the insertion order of the specification; *)
(* the visiting order is the same for two insertion orders of the same     *)
(* entries when they list the stages that share an order number in the     *)
(* same relative order, as they do when all order numbers differ.          *)
(***************************************************************************)
SameOrderOfTies(o1, o2) ==
  \A a, b \in StageNames :
    (a # b /\ StageInfo(a).orderNumber = StageInfo(b).orderNumber)
    => (Position(o1, a) < Position(o1, b) <=> Position(o2, a) < Position(o2, b))

C10_OrderedStably ==
  /\ Ascending(Visited)
  /\ \A i, j \in 1..Len(Visited) :
       (i < j /\ StageInfo(Visited[i]).orderNumber = StageInfo(Visited[j]).orderNumber)
       => Position(spec, Visited[i]) < Position(spec, Visited[j])
  /\ (pc = "stage" /\ idx = 1) =>
       \A o \in AllInsertionOrders :
         SameOrderOfTies(o, spec) => getInputSpecOrdered(o) = ordered

C10_Witness ==
  /\ pc = "validate"
  /\ spec = <<"note", "port", "out", "dir", "name", "intro">>
  /\ Visited = <<"intro", "name", "out", "dir", "port", "note">>

(***************************************************************************)
(* C11. Inapplicable-stage notice. As claimed: when the condition of a     *)
(* value stage is false and the condition has a description, the           *)
(* description is printed once in that pass before the stage is skipped.   *)
(***************************************************************************)
IsNotice(e, name, kind) == e.ev = "print" /\ e.name = name /\ e.arg = kind

C11_DescriptionNotice ==
  \A f \in ValueNames :
    ( /\ HasEvArg("condition", f, "false")
      /\ ConditionDescription(StageInfo(f).condition) # "" )
    => Cardinality({i \in 1..Len(log) :
                      /\ IsNotice(log[i], f, "condition")
                      /\ log[i].text = ConditionDescription(StageInfo(f).condition)}) = 1

(***************************************************************************)
(* C11, amended. When the condition of a value stage is false the stage is *)
(* skipped for the pass and nothing is printed for it, whether or not the  *)
(* condition has a description: the description is help text, and the only *)
(* line a pass can print for such a field is the validator's field error.  *)
(***************************************************************************)
C11_SkippedQuietly ==
  \A f \in ValueNames :
    HasEvArg("condition", f, "false")
    => /\ f \notin DOMAIN input
       /\ \A i \in 1..Len(log) :
            (log[i].ev = "print" /\ log[i].name = f) => log[i].arg = "fieldError"
       /\ \A i \in 1..Len(log) :
            log[i].ev = "print" => log[i].text # ConditionDescription(StageInfo(f).condition)

C11_Witness ==
  /\ pc = "validate"
  /\ HasEvArg("condition", "port", "false")
  /\ ConditionDescription(StageInfo("port").condition) # ""
  /\ "name" \in DOMAIN input
  /\ input["name"] = Str("y")
  /\ HasEv("visit", "note")

(***************************************************************************)
(* C12. Prompt resolution returns the decoded value: a value stored from   *)
(* the prompt is what the schema's decoder makes of what was typed, and so *)
(* is a value the schema accepts, also when the decoder transforms.        *)
(***************************************************************************)
C12_PromptDecoded ==
  \A f \in DOMAIN input :
    ~fromCLI[f]
    => /\ SchemaIs(StageInfo(f).schema, input[f])
       /\ \A i \in 1..Len(log) :
            (log[i].ev = "answer" /\ log[i].name = f)
            => input[f] = SchemaDecode(StageInfo(f).schema, <<log[i].arg, log[i].text>>)

(***************************************************************************)
(* C13. Condition-context-missing is fatal: when the stage the pass has    *)
(* come to is a value stage with a condition, or a message stage with a    *)
(* function for a message, and there is no dynamic value input, the        *)
(* collect operation rejects: the stage is not skipped, nothing is printed *)
(* or prompted for it, the validator is not called, and nothing follows.   *)
(***************************************************************************)
NeedsContext(name) ==
  \/ StageInfo(name).type = TYPE_VALIDATE /\ StageInfo(name).condition # "-"
  \/ StageInfo(name).type = TYPE_MESSAGE /\ StageInfo(name).message = "fn"

ContextMissing ==
  /\ pc = "stage"
  /\ idx <= Len(ordered)
  /\ ordered[idx] \notin DOMAIN input
  /\ NeedsContext(ordered[idx])
  /\ ~dynamicValueInput.some

C13_ContextMissingFatal ==
  /\ [][ContextMissing =>
          /\ pc' = "failed"
          /\ error' = "getOrThrow"
          /\ idx' = idx
          /\ input' = input
          /\ validatorCalls' = validatorCalls
          /\ \A i \in 1..Len(log') :
               log'[i].name = ordered[idx] => log'[i].ev \in {"visit", "condition"}]_vars
  /\ [](error = "getOrThrow" =>
          /\ pc = "failed"
          /\ NeedsContext(ordered[idx])
          /\ ordered[idx] \notin DOMAIN input
          /\ ~HasEv("prompt", ordered[idx])
          /\ ~HasEv("print", ordered[idx])
          /\ ~HasEv("validate", "")
          /\ validatorCalls = passes - 1)
  /\ [][error # "getOrThrow"]_vars

C13_Witness ==
  /\ pc = "failed"
  /\ error = "getOrThrow"
  /\ ordered[idx] = "note"
  /\ HasEv("skip", "port")
  /\ ~dynamicValueInput.some

(***************************************************************************)
(* C14. Prompt capability failure is propagated: when the prompt module    *)
(* rejects, the collect operation rejects with that error; the prompt was  *)
(* called once for the field and is not called again, the field is not     *)
(* stored, no later stage is handled, the validator is not called, and     *)
(* nothing follows.                                                        *)
(***************************************************************************)
C14_PromptFailurePropagated ==
  /\ [][(pc = "prompt" /\ pc' # "stage") =>
          /\ pc' = "failed"
          /\ error' = "prompt"
          /\ input' = input
          /\ log' = log]_vars
  /\ [](error = "prompt" =>
          /\ pc = "failed"
          /\ ordered[idx] \notin DOMAIN input
          /\ CountEv("prompt", ordered[idx]) = 1
          /\ log[Len(log)] = Ev("prompt", ordered[idx], "", "")
          /\ \A j \in (idx + 1)..Len(ordered) :
               ~HasEv("visit", ordered[j]) /\ ~HasEv("skip", ordered[j])
          /\ ~HasEv("validate", "")
          /\ validatorCalls = passes - 1)
  /\ [][error # "prompt"]_vars

C14_Witness ==
  /\ pc = "failed"
  /\ error = "prompt"
  /\ passes = 2
  /\ ordered[idx] = "dir"
  /\ HasEv("skip", "name")

(***************************************************************************)
(* C15. Structural error wipes the CLI arguments: once the validator has   *)
(* returned a string, the input starts empty again and cliArgs holds no    *)
(* flag, no argument and no name; in every later pass no value is taken    *)
(* from the CLI, whatever the cliArgs parameter holds, and every value     *)
(* stage that is resolved is prompted for.                                 *)
(***************************************************************************)
C15_WipedAfterString ==
  /\ (pc = "collect" /\ validationResult.result.shape = "string") =>
       (wasReset /\ input = EmptyInput /\ cliArgs = CLIArgsResult(NoFlags, <<>>))
  /\ wasReset =>
       /\ cliArgs.flags = NoFlags
       /\ cliArgs.input = <<>>
       /\ cliArgs.names = {}
       /\ \A f \in DOMAIN input : ~fromCLI[f]
       /\ (InPass /\ passes > 1) =>
            /\ cliArgsSet = {}
            /\ \A f \in ValueNames :
                 /\ ~HasEvArg("cli", f, "valid")
                 /\ ~HasEvArg("cli", f, "invalid")
                 /\ ~HasEvArg("store", f, "cli")
                 /\ ~HasEvArg("print", f, "usingCLI")
                 /\ HasEv("store", f) => HasEv("answer", f)

C15_Witness ==
  /\ wasReset
  /\ pc = "validate"
  /\ passes = 3
  /\ cliArgs.isHashSet
  /\ ParamValueValid("port")
  /\ ParamValueValid("name")
  /\ HasEvArg("store", "port", "prompt")
  /\ HasEv("skip", "name")

(***************************************************************************)
(* C16. Message stage emission. As claimed: a message stage prints its     *)
(* message only when it is a string that is not empty.                     *)
(***************************************************************************)
C16_NonEmptyOnly ==
  \A i \in 1..Len(log) :
    (log[i].ev = "print" /\ log[i].arg = "message") => log[i].text # ""

(***************************************************************************)
(* C16, amended. A message stage that is handled prints its message once   *)
(* when the message is a string, the empty string included, which prints   *)
(* an empty line; it prints nothing only when its message function returns *)
(* undefined. A message stage never adds to the input.                     *)
(***************************************************************************)
MessageStages == {n \in StageNames : StageInfo(n).type = TYPE_MESSAGE}

ResolvedMessage(m) ==
  IF StageInfo(m).message = "fn" THEN message(dynamicValueInput)
  ELSE Str(StageInfo(m).message)

C16_AnyString ==
  \A m \in MessageStages :
    /\ m \notin DOMAIN input
    /\ (HasEv("visit", m) /\ ~(error = "getOrThrow" /\ ordered[idx] = m))
       => IF ResolvedMessage(m)[1] = "string"
            THEN /\ CountEv("print", m) = 1
                 /\ \E i \in 1..Len(log) :
                      /\ IsNotice(log[i], m, "message")
                      /\ log[i].text = ResolvedMessage(m)[2]
            ELSE ~HasEv("print", m)

C16_Witness ==
  /\ pc = "validate"
  /\ HasEv("visit", "note")
  /\ ResolvedMessage("note") = Str("")
  /\ \E i \in 1..Len(log) : IsNotice(log[i], "note", "message") /\ log[i].text = ""

(***************************************************************************)
(* C17. Positional sourcing: two value stages without a flag that both get *)
(* their value from the CLI in the same pass get different positional      *)
(* arguments, the second not the one the first has taken.                  *)
(***************************************************************************)
Flagless == {n \in ValueNames : ~StageInfo(n).flag}

C17_DistinctPositionals ==
  InPass =>
    \A a, b \in Flagless :
      ( /\ a # b
        /\ HasEvArg("store", a, "cli")
        /\ HasEvArg("store", b, "cli")
        /\ a \in DOMAIN input
        /\ b \in DOMAIN input )
      => \E i, j \in 1..Len(cliArgs.input) :
           /\ i # j
           /\ input[a] = cliArgs.input[i]
           /\ input[b] = cliArgs.input[j]

(***************************************************************************)
(* C18. One-time reuse notice: the "not re-using CLI-supplied value" line  *)
(* is printed for a field one time over the whole collect operation: a     *)
(* field it has been printed for does not get it printed again in a later  *)
(* pass that resolves the field again.                                     *)
(***************************************************************************)
C18_NoticeOnce ==
  [][\A i \in 1..Len(log') :
       ( /\ pc = "stage"
         /\ i > Len(log)
         /\ log'[i].ev = "print"
         /\ log'[i].arg = "notReusing" )
       => log'[i].name \notin noticed]_vars

(***************************************************************************)
(* C19. Loop alternation: passes and validator calls alternate, starting   *)
(* with a pass. The validator is called once after every pass that ran to  *)
(* its end, on the input as the pass left it, and not again before another *)
(* pass has run; a pass starts only after the validator has answered the   *)
(* call that followed the pass before.                                     *)
(***************************************************************************)
C19_Alternation ==
  /\ [](/\ pc \in {"collect", "validate", "done"} => passes = validatorCalls
        /\ pc \in {"stage", "prompt"} => passes = validatorCalls + 1
        /\ pc = "failed" => passes - validatorCalls \in {0, 1})
  /\ [][/\ validatorCalls' # validatorCalls =>
             /\ validatorCalls' = validatorCalls + 1
             /\ passes = validatorCalls'
             /\ pc = "stage"
             /\ pc' = "validate"
             /\ input' = input
        /\ passes' # passes =>
             /\ passes' = passes + 1
             /\ passes = validatorCalls
             /\ pc = "collect"
             /\ pc' = "stage"
        /\ pc = "validate" => pc' \in {"collect", "done", "failed"}
        /\ pc' = "validate" => (pc = "stage" /\ validatorCalls' = validatorCalls + 1)
        /\ (pc = "stage" /\ PassOver(idx, ordered)) => pc' = "validate"]_vars

C19_Witness ==
  /\ pc = "validate"
  /\ passes = 3
  /\ validatorCalls = 3
  /\ validationResult.intent = "-"

(***************************************************************************)
(* C20. Sequential suspension: one call at most is waited for. While the   *)
(* prompt module is asked about a field nothing else happens; its answer   *)
(* is stored before the pass comes to the next stage; and the validator is *)
(* called when every stage of the pass has been handled or passed over,    *)
(* each once and no prompt left unanswered.                                *)
(***************************************************************************)
CountAll(ev) == Cardinality({i \in 1..Len(log) : log[i].ev = ev})

C20_Sequential ==
  /\ pc = "prompt" =>
       /\ log[Len(log)] = Ev("prompt", ordered[idx], "", "")
       /\ ordered[idx] \notin DOMAIN input
       /\ CountAll("prompt") = CountAll("answer") + 1
       /\ ~HasEv("validate", "")
  /\ pc \in {"stage", "validate", "collect", "done"} => CountAll("prompt") = CountAll("answer")
  /\ \A i \in 1..Len(log) :
       (log[i].ev = "prompt" /\ i < Len(log))
       => /\ i + 1 < Len(log)
          /\ log[i + 1].ev = "answer" /\ log[i + 1].name = log[i].name
          /\ log[i + 2] = Ev("store", log[i].name, "prompt", "")
  /\ \A i \in 1..Len(log) :
       log[i].ev = "validate"
       => /\ Len(Visited) = Cardinality(StageNames)
          /\ Range(Visited) = StageNames
          /\ \A j \in 1..Len(log) : log[j].ev \in {"visit", "skip"} => j < i
          /\ CountAll("validate") = 1

C20_Witness ==
  /\ pc = "validate"
  /\ passes = 1
  /\ CountAll("prompt") = 4
  /\ DOMAIN input = {"name", "dir", "out", "port"}
  /\ Len(Visited) = 6

(***************************************************************************)
(* C21. Dynamic context is computed at most once. As claimed: once the     *)
(* provider has returned a context, the provider is not called again and   *)
(* the context stays what it is, for the rest of the collect operation.    *)
(***************************************************************************)
\* The step calls getDynamicValueInput.
ProviderInvoked ==
  \/ pc = "collect" /\ pc' = "stage"
  \/ /\ pc # "collect"
     /\ \E i \in (Len(log) + 1)..Len(log') : log'[i].ev = "provider"

C21_ComputedOnce ==
  [][dynamicValueInput.some =>
       (dynamicValueInput' = dynamicValueInput /\ ~ProviderInvoked)]_vars

(***************************************************************************)
(* C21, amended. Within one pass: once the provider has returned a context *)
(* it is not called again in that pass, and the conditions and messages of *)
(* the pass use that context though fields are added after it. Every pass  *)
(* starts by calling the provider again with the input as it is then.      *)
(***************************************************************************)
C21_OncePerPass ==
  /\ [][(dynamicValueInput.some /\ pc # "collect") =>
          (dynamicValueInput' = dynamicValueInput /\ ~ProviderInvoked)]_vars
  /\ [][(pc = "collect" /\ pc' = "stage") =>
          dynamicValueInput' = getDynamicValueInput(input)]_vars
  /\ [](\A i \in 1..Len(log) :
          (log[i].ev = "provider" /\ log[i].arg = "some")
          => \A j \in (i + 1)..Len(log) : log[j].ev # "provider")

C21_Witness ==
  /\ pc = "validate"
  /\ passes = 2
  /\ log[1] = Ev("provider", "", "some", "")
  /\ HasEv("store", "dir")
  /\ "dir" \in DOMAIN input
  /\ dynamicValueInput = Some("x", FALSE)
  /\ HasEv("visit", "note")

C23_RecordKept ==
  [][ArrayStep => cliArgs' = cliArgs]_vars

(***************************************************************************)
(* C23, amended. Handling an array of errors replaces an open cliArgs, at  *)
(* that step, by the set of the names whose values the pass just run took  *)
(* from the CLI; a cliArgs that is a set already is left as it was.        *)
(***************************************************************************)
C23_RecordClosedAtVerdict ==
  [][ArrayStep =>
       /\ cliArgs'.isHashSet
       /\ cliArgs.isHashSet => cliArgs' = cliArgs
       /\ ~cliArgs.isHashSet =>
            (cliArgs' = HashSet(cliArgsSet) /\ cliArgs' # cliArgs)]_vars

C23_Witness ==
  /\ pc = "collect"
  /\ passes = 1
  /\ validationResult.result.shape = "array"
  /\ validationResult.result.pairs = <<>>
  /\ cliArgs = HashSet({"name", "dir", "out", "port"})
  /\ ~cliArgsParam.isHashSet

C25_OnlyValueStages ==
  /\ DOMAIN input \subseteq ValueNames
  /\ DOMAIN fromCLI = DOMAIN input
  /\ validatedInput.shape = "object" => DOMAIN validatedInput.of \subseteq ValueNames

C25_Witness ==
  /\ pc = "validate"
  /\ passes = 2
  /\ CountEv("visit", "intro") = 1
  /\ CountEv("visit", "note") = 1
  /\ CountEv("print", "note") = 1
  /\ DOMAIN input = ValueNames

(***************************************************************************)
(* C26. CLI resolution never consumes the snapshot: no step of a pass      *)
(* changes cliArgs; an open cliArgs is the one the operation was called    *)
(* with, or the empty one after a reset; and every stage without a flag    *)
(* that is looked up in an open cliArgs is decided by the first positional *)
(* argument, also after an earlier stage has had it refused.               *)
(***************************************************************************)
C26_SnapshotNotConsumed ==
  /\ [][(pc \in {"stage", "prompt"}) => (cliArgs' = cliArgs)]_vars
  /\ [](~cliArgs.isHashSet =>
          \/ cliArgs = cliArgsParam
          \/ wasReset /\ cliArgs = CLIArgsResult(NoFlags, <<>>))
  /\ []((InPass /\ ~cliArgs.isHashSet) =>
          \A f \in Flagless :
            HasEv("cli", f)
            => HasEvArg("cli", f,
                        IF cliArgs.input = <<>> THEN "absent"
                        ELSE IF SchemaIs(StageInfo(f).schema, cliArgs.input[1])
                          THEN "valid" ELSE "invalid"))

C26_Witness ==
  /\ pc = "validate"
  /\ cliArgs = cliArgsParam
  /\ cliArgs.input = <<Str("")>>
  /\ HasEvArg("cli", "dir", "invalid")
  /\ HasEvArg("cli", "out", "invalid")
  /\ HasEvArg("print", "out", "cliInvalid")

(***************************************************************************)
(* C27. Liveness: when every call of the prompt module and of the          *)
(* validator returns and the validator, in the end, answers with a         *)
(* validated input, the collect operation comes to its end: it returns     *)
(* (or it rejects because a stage that needs the context found none).      *)
(***************************************************************************)
C27_EventuallyReturns == <>(pc = "done" \/ pc = "failed")

(***************************************************************************)
(* C28. Message stages are emitted again on every pass: a message stage    *)
(* with a literal message is never passed over; every pass, the first and  *)
(* each later one, comes to it and prints its message once, so that the    *)
(* operation prints it as many times as it runs passes.                    *)
(***************************************************************************)
LiteralMessages == {m \in MessageStages : StageInfo(m).message # "fn"}

\* The running pass has gone beyond stage m.
Beyond(m) ==
  /\ InPass
  /\ \E k \in 1..Len(ordered) : ordered[k] = m /\ (k < idx \/ pc = "validate")

C28_EmittedEveryPass ==
  \A m \in LiteralMessages :
    /\ ~HasEv("skip", m)
    /\ CountEv("print", m) = CountEv("visit", m)
    /\ CountEv("visit", m) <= 1
    /\ Beyond(m) =>
         /\ passes \in 1..(MaxPasses + 1)
         /\ CountEv("print", m) = 1
         /\ \E i \in 1..Len(log) :
              IsNotice(log[i], m, "message") /\ log[i].text = StageInfo(m).message

C28_Witness ==
  /\ pc = "validate"
  /\ passes = 3
  /\ wasReset
  /\ cliArgs.isHashSet
  /\ CountEv("print", "intro") = 1
  /\ HasEv("skip", "name")

(***************************************************************************)
(* C29. Closing the record disables the CLI for all fields: while cliArgs  *)
(* is a set of names no value stage gets its value from the CLI, a stage   *)
(* that was never resolved before and has a flag value its schema accepts  *)
(* included; each stage that is resolved is prompted for, with the "not    *)
(* re-using" line for the names in the set and without it for the others;  *)
(* and cliArgs stays a set until a string result resets it.                *)
(***************************************************************************)
C29_ClosedForAll ==
  /\ []((InPass /\ cliArgs.isHashSet) =>
          \A f \in ValueNames :
            /\ ~HasEvArg("cli", f, "valid")
            /\ ~HasEvArg("store", f, "cli")
            /\ (f \in DOMAIN input /\ HasEv("store", f)) => ~fromCLI[f]
            /\ (Resolved(f) /\ pc # "failed") =>
                 /\ HasEvArg("cli", f, "closed")
                 /\ HasEv("prompt", f)
                 /\ HasEvArg("print", f, "notReusing") <=> f \in cliArgs.names)
  /\ [][cliArgs.isHashSet => (cliArgs'.isHashSet \/ ResetStep)]_vars

C29_Witness ==
  /\ pc = "validate"
  /\ cliArgs.isHashSet
  /\ "port" \notin cliArgs.names
  /\ ParamValueValid("port")
  /\ HasEvArg("store", "port", "prompt")
  /\ ~HasEvArg("print", "port", "notReusing")

(***************************************************************************)
(* C30. The closed set is fixed when cliArgs is closed: it is the set of   *)
(* the names whose values the pass before the first array of errors took   *)
(* from the CLI; no later pass and no later array of errors adds to it or  *)
(* takes from it; only a string result discards it.                        *)
(***************************************************************************)
\* The names the running pass has stored a CLI value for.
TakenFromCLI == {f \in ValueNames : HasEvArg("store", f, "cli")}

C30_ClosedSetFixed ==
  /\ [](InPass => cliArgsSet = TakenFromCLI)
  /\ [][(~cliArgs.isHashSet /\ cliArgs'.isHashSet) =>
          /\ ArrayStep
          /\ cliArgs'.names = TakenFromCLI
          /\ cliArgs'.flags = NoFlags
          /\ cliArgs'.input = <<>>]_vars
  /\ [][cliArgs.isHashSet =>
          \/ cliArgs' = cliArgs
          \/ ResetStep /\ cliArgs' = CLIArgsResult(NoFlags, <<>>)]_vars

C30_Witness ==
  /\ pc = "collect"
  /\ passes = 3
  /\ ~wasReset
  /\ validationResult.result.shape = "array"
  /\ validationResult.result.pairs = <<"dir">>
  /\ cliArgs = HashSet({"dir", "out"})
  /\ rejectedCLI = {"dir", "out"}

(***************************************************************************)
(* C31. The dynamic value input does not survive a pass. Every pass starts *)
(* by asking the provider with the input as it is then, whatever the pass  *)
(* before had: after a deletion or a reset the pass may start without one  *)
(* though the pass before had one. As long as the running pass has not     *)
(* got one, a value stage with a condition or a message stage with a       *)
(* function for a message that is come to makes the collect operation      *)
(* reject; once the pass has got one, no stage does.                       *)
(***************************************************************************)
\* The running pass had a dynamic value input before the log's i-th event.
ContextBefore(i) ==
  \E j \in 1..(i - 1) : log[j].ev = "provider" /\ log[j].arg = "some"

C31_ContextNotKept ==
  /\ [][(pc = "collect" /\ pc' = "stage") =>
          /\ dynamicValueInput' = getDynamicValueInput(input)
          /\ log' = <<Ev("provider", "",
                         IF getDynamicValueInput(input).some THEN "some" ELSE "none",
                         "")>>]_vars
  /\ [](InPass =>
          \A i \in 1..Len(log) :
            (log[i].ev = "visit" /\ NeedsContext(log[i].name))
            => IF ContextBefore(i)
                 THEN error # "getOrThrow"
                 ELSE /\ pc = "failed"
                      /\ error = "getOrThrow"
                      /\ ordered[idx] = log[i].name
                      /\ \A j \in (i + 1)..Len(log) : log[j].ev = "condition")

\* The second pass starts without a dynamic value input though the first
\* had one ("port" was stored under it): "name" was deleted and answered
\* anew, and the pass fails at "note".
C31_Witness ==
  /\ pc = "failed"
  /\ error = "getOrThrow"
  /\ passes = 2
  /\ ~wasReset
  /\ log[1] = Ev("provider", "", "none", "")
  /\ "port" \in DOMAIN input
  /\ HasEv("store", "name")
  /\ HasEv("skip", "port")
  /\ ordered[idx] = "note"

(***************************************************************************)
(* C32. Verdict classification. The collect operation returns after a      *)
(* validator call exactly when what the validator returned is not an       *)
(* array, not a string and not undefined, and it returns that value. An    *)
(* array is handled as a list of field errors and a string as an internal  *)
(* error, also when the validator meant them as its validated input: the   *)
(* named fields are deleted and an open cliArgs is closed, or the input    *)
(* and the CLI arguments are emptied, and another pass follows. On         *)
(* undefined another pass follows with the input and cliArgs unchanged.    *)
(***************************************************************************)
\* The step handles what the validator returned.
VerdictStep == pc = "validate" /\ pc' # "failed"

C32_VerdictClassified ==
  [][VerdictStep =>
       LET verdict == validationResult'.result
       IN /\ pc' \in {"done", "collect"}
          /\ pc' = "done" <=> verdict.shape \notin {"array", "string", "undefined"}
          /\ pc' = "done" => validatedInput' = verdict
          /\ pc' = "collect" => validatedInput' = ResultUndefined
          /\ verdict.shape = "array" =>
                /\ input' = Without(input, Range(verdict.pairs))
                /\ cliArgs' = IF cliArgs.isHashSet THEN cliArgs ELSE HashSet(cliArgsSet)
                /\ \A f \in Range(verdict.pairs) :
                     \E k \in (Len(log) + 1)..Len(log') :
                       IsNotice(log'[k], f, "fieldError")
          /\ verdict.shape = "string" =>
                /\ input' = EmptyInput
                /\ cliArgs' = CLIArgsResult(NoFlags, <<>>)
                /\ \E k \in (Len(log) + 1)..Len(log') :
                     IsNotice(log'[k], "", "internalError")
          /\ verdict.shape \notin {"array", "string"} =>
                /\ input' = input
                /\ cliArgs' = cliArgs
                /\ \A k \in (Len(log) + 1)..Len(log') : log'[k].ev # "print"]_vars

\* The validator meant a string as its validated input, in the second pass
\* of a collect operation that was given CLI arguments: the operation has
\* not returned, the input and the CLI arguments are emptied and a third
\* pass is due.
C32_Witness ==
  /\ pc = "collect"
  /\ passes = 2
  /\ validationResult = [intent |-> "accept", result |-> ResultString]
  /\ validatedInput = ResultUndefined
  /\ cliArgsParam.flags["name"] = Str("x")
  /\ cliArgs = CLIArgsResult(NoFlags, <<>>)
  /\ input = EmptyInput
  /\ HasEv("reset", "")

(***************************************************************************)
(* C33. An empty array of errors makes no progress. Handling it deletes no *)
(* field and prints nothing, closes an open cliArgs and starts another     *)
(* pass. From then on, with a validator that is a function of the input,   *)
(* the pass handles no stage's value anew: the input and cliArgs stay as   *)
(* they are, nothing is prompted for, the operation neither returns nor    *)
(* fails, and the validator is called again and again with that input.     *)
(***************************************************************************)
\* Nothing is left to resolve and the validator answers the input with an
\* empty array: every value stage is stored or not applicable under the
\* dynamic value input of the pass (of the coming pass, between passes).
Settled ==
  LET components == IF pc = "collect" THEN getDynamicValueInput(input)
                    ELSE dynamicValueInput
  IN /\ pc \in {"collect", "stage", "validate"}
     /\ components.some
     /\ \A n \in ValueNames :
          n \in DOMAIN input \/ ~Applicable(StageInfo(n), components)
     /\ inputValidatorByInput(input).result = ResultArray(<<>>)

C33_EmptyListRepeats ==
  /\ [][(VerdictStep /\ validationResult'.result = ResultArray(<<>>)) =>
          /\ input' = input
          /\ cliArgs' = IF cliArgs.isHashSet THEN cliArgs ELSE HashSet(cliArgsSet)
          /\ log' = Append(log, Ev("result", "", "array", ""))
          /\ pc' = "collect"
          /\ Settled']_vars
  /\ [][Settled =>
          /\ Settled'
          /\ input' = input
          /\ pc # "validate" => cliArgs' = cliArgs
          /\ \A k \in 1..Len(log') : log'[k].ev \notin {"prompt", "store", "cli"}
                                         \/ k <= Len(log)]_vars
  /\ []((Settled /\ pc = "collect") => <>(pc = "validate"))
  /\ []((Settled /\ pc = "validate") => <>(pc = "collect"))

\* Every value stage is stored, the raw answer "7" for "port", which the
\* validator answers with an empty array; cliArgs is closed, the running
\* pass has passed over every value stage and the validator is called with
\* the same input once more.
C33_Witness ==
  /\ pc = "validate"
  /\ passes = MaxPasses
  /\ validatorCalls = MaxPasses
  /\ Settled
  /\ cliArgs.isHashSet
  /\ DOMAIN input = {"name", "dir", "out", "port"}
  /\ input["port"] = Str("7")
  /\ \A n \in ValueNames : HasEv("skip", n)

(***************************************************************************)
(* C34. Completeness at validation: whenever the validator is called,      *)
(* every value stage of the specification is in the input, passed over or  *)
(* stored in the pass just run, or is a stage with a condition that the    *)
(* pass came to and whose condition was not true then. No value stage that *)
(* is applicable is without a value.                                       *)
(***************************************************************************)
C34_CompleteAtValidation ==
  pc = "validate" =>
    \A n \in ValueNames :
      IF n \in DOMAIN input
        THEN HasEv("skip", n) \/ HasEv("store", n)
        ELSE /\ StageInfo(n).condition # "-"
             /\ HasEv("visit", n)
             /\ HasEvArg("condition", n, "false")
             /\ ~HasEv("prompt", n)

\* The validator is called after a second pass in which "dir", deleted
\* after the first, was stored anew, while "port" is without a value: its
\* condition was false again.
C34_Witness ==
  /\ pc = "validate"
  /\ passes = 2
  /\ HasEv("skip", "name")
  /\ HasEv("store", "dir")
  /\ DOMAIN input = {"name", "dir", "out"}
  /\ HasEvArg("condition", "port", "false")
====
